---- MODULE Spec2Model ----
(***************************************************************************)
(* VendSwift backend (src/main.py): the two endpoints of the service, the  *)
(* per-request database connection, and the relational store they read.    *)
(*                                                                         *)
(* A request slot i of Inv is one inbound request.  It is either a call of *)
(* health_check or a call of get_machine_products(machine_code); the steps *)
(* of get_machine_products are the blocking calls of the handler, so that  *)
(* concurrent requests and external administration of the store interleave *)
(* between them.  The store runs at PostgreSQL's default isolation level   *)
(* (READ COMMITTED): every statement reads the rows committed when it      *)
(* starts.                                                                 *)
(***************************************************************************)
EXTENDS Integers, Sequences, FiniteSets, TLC

\* ----- bounds of the model -----
NumInv == 2          \* request slots
MaxAdmin == 1        \* updates applied by external administration

Inv == 1..NumInv

\* machine_code values a client sends: a code of the store and an unknown one
Codes == {"M12", "ZZZ"}

\* Python None / SQL NULL in a string column
None == "None"
\* an absent record: fetchone() returning None, a response without a body
Null == [null |-> TRUE]

VARIABLES
    machines,           \* relation machines(id, code, name, is_active)
    products,           \* relation products(id, sku, name, description, image_url)
    machine_products,   \* relation machine_products(id, machine_id, product_id, price, currency, is_active)
    adminOps,           \* updates committed so far by external administration
    conns,              \* every connection psycopg2.connect has returned, in order
    op,                 \* op[i]: the endpoint request i called
    code,               \* code[i]: the machine_code argument
    pc,                 \* pc[i]: position of request i in its handler
    conn,               \* conn[i]: local variable conn (index into conns, 0: unbound)
    machine,            \* machine[i]: local variable machine
    rows,               \* rows[i]: local variable rows
    outcome,            \* outcome[i]: the return value or exception in flight; the caller sees it at "done"
    calls,              \* calls[i]: how often request i called connect, execute (query 1, 2) and close
    fault,              \* fault[i]: the call at which the store failed request i
    seen1,              \* seen1[i]: the machines relation as query 1 of request i read it
    seen2               \* seen2[i]: the store as query 2 of request i read it

store == <<machines, products, machine_products>>
locals == <<conn, machine, rows>>
vars == <<machines, products, machine_products, adminOps, conns, op, code, pc,
          conn, machine, rows, outcome, calls, fault, seen1, seen2>>

\* ----- the store -----

\* machine "M12" has internal id "7", which is also the scan code of the other machine
MachineRows(a, b) ==
    { [id |-> "7",  code |-> "M12", name |-> "Lobby Vendor", is_active |-> a],
      [id |-> "12", code |-> "7",   name |-> "Dock Vendor",  is_active |-> b] }

ProductRows ==
    { [id |-> 1, sku |-> "COKE-330", name |-> "Coke",  description |-> "Can 330ml", image_url |-> None],
      [id |-> 2, sku |-> "CHIPS-45", name |-> "Chips", description |-> None,        image_url |-> "chips.png"],
      [id |-> 3, sku |-> "AQUA-500", name |-> "Water", description |-> None,        image_url |-> None],
      [id |-> 4, sku |-> "COKE-500", name |-> "Coke",  description |-> "Bottle",    image_url |-> None] }

\* a NUMERIC value mant / 10^scale: 1.50 is [mant |-> 150, scale |-> 2]
Dec(m, s) == [mant |-> m, scale |-> s]

JoinRows(f) ==
    { [id |-> 1, machine_id |-> "7",  product_id |-> 1, price |-> Dec(150, 2), currency |-> "USD", is_active |-> f[1]],
      [id |-> 2, machine_id |-> "7",  product_id |-> 2, price |-> Dec(225, 2), currency |-> "USD", is_active |-> f[2]],
      [id |-> 3, machine_id |-> "7",  product_id |-> 4, price |-> Dec(2, 0),   currency |-> "USD", is_active |-> f[3]],
      [id |-> 4, machine_id |-> "12", product_id |-> 3, price |-> Dec(1503, 3), currency |-> "EUR", is_active |-> f[4]] }

\* rank of a product name in the collation of the database (ORDER BY p.name)
Collate(name) ==
    CASE name = "Chips" -> 1
      [] name = "Coke"  -> 2
      [] name = "Water" -> 3

\* ----- get_conn -----

NewConn(i) == [opened_by |-> i, open |-> TRUE, closes |-> 0, used_by |-> {i}]

\* a bug: one module-level connection shared by all requests
get_conn_shared(cs, i) ==
    IF Len(cs) > 0
    THEN [id |-> 1, conns |-> [cs EXCEPT ![1].open = TRUE, ![1].used_by = @ \cup {i}]]
    ELSE [id |-> 1, conns |-> <<NewConn(i)>>]

\* psycopg2.connect returns a new connection on every call
get_conn(cs, i) ==
    [id |-> Len(cs) + 1, conns |-> Append(cs, NewConn(i))]

\* request i uses the connection bound to its local conn
Use(cs, c, i) == [cs EXCEPT ![c].used_by = @ \cup {i}]

\* ----- query 1 -----

\* a bug: the is_active filter is missing
select_machine_any(ms, c) ==
    LET hit == { m \in ms : m.code = c }
    IN  IF hit = {} THEN {Null}
        ELSE { [id |-> m.id, code |-> m.code, name |-> m.name] : m \in hit }

\* SELECT id, code, name FROM machines WHERE code = %s AND is_active = TRUE,
\* then fetchone(): the rows fetchone may return, Null when there is none
select_machine(ms, c) ==
    LET hit == { m \in ms : m.code = c /\ m.is_active }
    IN  IF hit = {} THEN {Null}
        ELSE { [id |-> m.id, code |-> m.code, name |-> m.name] : m \in hit }

\* ----- query 2 -----

\* a bug: the mp.is_active filter is missing
select_products_all(mps, ps, mid) ==
    { j \in mps \X ps : j[2].id = j[1].product_id /\ j[1].machine_id = mid }

\* FROM machine_products mp JOIN products p ON p.id = mp.product_id
\* WHERE mp.machine_id = %s AND mp.is_active = TRUE
select_products(mps, ps, mid) ==
    { j \in mps \X ps : j[2].id = j[1].product_id
                        /\ j[1].machine_id = mid /\ j[1].is_active }

Injective(s) == \A a, b \in DOMAIN s : s[a] = s[b] => a = b

\* a bug: the ORDER BY clause is missing
order_by_none(J) ==
    { s \in [1..Cardinality(J) -> J] : Injective(s) }

\* ORDER BY p.name: every order of the joined rows that ascends by name;
\* SQL leaves the order of rows with equal names open
order_by_name(J) ==
    { s \in [1..Cardinality(J) -> J] :
        /\ Injective(s)
        /\ \A k \in 1..(Cardinality(J) - 1) :
              Collate(s[k][2].name) <= Collate(s[k + 1][2].name) }

\* SELECT p.sku, p.name, p.description, mp.price, mp.currency, p.image_url
Columns(j) ==
    [sku |-> j[2].sku, name |-> j[2].name, description |-> j[2].description,
     price |-> j[1].price, currency |-> j[1].currency, image_url |-> j[2].image_url]

\* the results fetchall() may return for query 2
fetchall_products(mps, ps, mid) ==
    { [k \in DOMAIN s |-> Columns(s[k])] : s \in order_by_name(select_products(mps, ps, mid)) }

\* ----- the response -----

\* ----- float(Decimal) -----
\* A binary64 value is written as the shortest decimal that reads back as
\* that value (its repr) without trailing zeros, 1.50 becomes 1.5, together
\* with its sign bit, which a zero keeps: float of -1E-400 is -0.0.
\* The Decimal is built from the text of a NUMERIC: its scale is not negative,
\* and its mantissa, an integer of the model, has at most 10 digits.

\* natural numbers of any length: decimal digits, least significant first,
\* no leading zero; <<>> is 0
RECURSIVE Digits(_)
Digits(n) == IF n = 0 THEN <<>> ELSE <<n % 10>> \o Digits(n \div 10)

RECURSIVE IntOf(_)
IntOf(a) == IF a = <<>> THEN 0 ELSE a[1] + 10 * IntOf(Tail(a))

RECURSIVE Trim(_)
Trim(a) ==
    IF a = <<>> \/ a[Len(a)] # 0 THEN a ELSE Trim(SubSeq(a, 1, Len(a) - 1))

\* a + 1
RECURSIVE Inc(_)
Inc(a) ==
    IF a = <<>> THEN <<1>>
    ELSE IF a[1] < 9 THEN <<a[1] + 1>> \o Tail(a)
    ELSE <<0>> \o Inc(Tail(a))

\* 2 * a: the carry into a digit is 1 when the digit below is 5 or more
Double(a) ==
    LET n == Len(a)
        r == [i \in 1..(n + 1) |->
                ((IF i <= n THEN 2 * a[i] ELSE 0)
                 + (IF i > 1 /\ a[i - 1] >= 5 THEN 1 ELSE 0)) % 10]
    IN  Trim(SubSeq(r, 1, n + 1))

\* 5 * a: the carry into a digit is half the digit below
Times5(a) ==
    LET n == Len(a)
        r == [i \in 1..(n + 1) |->
                ((IF i <= n THEN 5 * a[i] ELSE 0)
                 + (IF i > 1 THEN a[i - 1] \div 2 ELSE 0)) % 10]
    IN  Trim(SubSeq(r, 1, n + 1))

\* a * 2^n (each half is computed before the other half starts from it)
RECURSIVE Times2Pow(_, _)
Times2Pow(a, n) ==
    IF n = 0 THEN a
    ELSE LET h == IF n % 2 = 1 THEN Times2Pow(a, n - 1) ELSE Times2Pow(a, n \div 2)
         IN  IF Len(h) < 0 THEN <<>>
             ELSE IF n % 2 = 1 THEN Double(h)
             ELSE Times2Pow(h, n \div 2)

\* a * 5^n
RECURSIVE Times5Pow(_, _)
Times5Pow(a, n) ==
    IF n = 0 THEN a
    ELSE LET h == IF n % 2 = 1 THEN Times5Pow(a, n - 1) ELSE Times5Pow(a, n \div 2)
         IN  IF Len(h) < 0 THEN <<>>
             ELSE IF n % 2 = 1 THEN Times5(h)
             ELSE Times5Pow(h, n \div 2)

\* -1, 0, 1 as a < b, a = b, a > b, from digit i down (equal above i)
RECURSIVE CmpFrom(_, _, _)
CmpFrom(a, b, i) ==
    IF i = 0 THEN 0
    ELSE IF a[i] < b[i] THEN -1
    ELSE IF a[i] > b[i] THEN 1
    ELSE CmpFrom(a, b, i - 1)

Cmp(a, b) ==
    IF Len(a) < Len(b) THEN -1
    ELSE IF Len(a) > Len(b) THEN 1
    ELSE CmpFrom(a, b, Len(a))

\* the lowest digit of a that is not 0 (a # 0)
RECURSIVE LowestFrom(_, _)
LowestFrom(a, i) == IF a[i] # 0 THEN i ELSE LowestFrom(a, i + 1)

\* 10^n - a, for 0 < a < 10^n
Complement(a, n) ==
    LET p == LowestFrom(a, 1)
        dig(i) == IF i <= Len(a) THEN a[i] ELSE 0
        r == [i \in 1..n |->
                IF i < p THEN 0 ELSE IF i = p THEN 10 - dig(i) ELSE 9 - dig(i)]
    IN  Trim(SubSeq(r, 1, n))

\* a without its n lowest digits, and whether what they hold rounds a up
\* (to nearest, a half to even)
Cut(a, n) ==
    LET dig(i) == IF i >= 1 /\ i <= Len(a) THEN a[i] ELSE 0
        top == IF n < Len(a) THEN SubSeq(a, n + 1, Len(a)) ELSE <<>>
        low == Trim(SubSeq(a, 1, IF n < Len(a) THEN n ELSE Len(a)))
        rest == \E i \in 1..(n - 1) : dig(i) # 0
        odd == top # <<>> /\ top[1] % 2 = 1
    IN  [top |-> top, low |-> low,
         up |-> dig(n) > 5 \/ (dig(n) = 5 /\ (rest \/ odd))]

\* a \div 2: a digit takes 5 from an odd digit above it
Half(a) ==
    LET n == Len(a)
        r == [i \in 1..n |->
                (a[i] \div 2) + (IF i < n /\ a[i + 1] % 2 = 1 THEN 5 ELSE 0)]
    IN  Trim(SubSeq(r, 1, n))

RECURSIVE HalfPow(_, _)
HalfPow(a, n) == IF n = 0 THEN a ELSE HalfPow(Half(a), n - 1)

\* the exponent of the smallest binary64 above 0, 2^-1074: every binary64
\* is a multiple k of 2^-1074
SubnormalExp == 1074

\* the bits of a binary64 significand: k < 2^53 or k = m * 2^b with m < 2^53
MantBits == 53

\* the b of the binade of q * 2^-1074: two neighbouring binary64 are
\* 2^b * 2^-1074 apart there (0 below 2^-1021, 1 from 2^-1021, 2 from 2^-1020)
RECURSIVE Gap(_, _)
Gap(q, b) ==
    IF Cmp(q, Times2Pow(<<1>>, MantBits + b)) < 0 THEN b ELSE Gap(q, b + 1)

\* the k of the binary64 nearest to mant / 10^scale (a half goes to the even
\* significand)
NearestMultiple(d) ==
    LET m == Digits(d.mant)
        b == Gap(Cut(Times2Pow(m, SubnormalExp), d.scale).top, 0)
        c == Cut(Times2Pow(m, SubnormalExp - b), d.scale)
    IN  Times2Pow(IF c.up THEN Inc(c.top) ELSE c.top, b)

\* twice the distance a is at most w (closed), or less than w
Within(a, w, closed) == Cmp(Double(a), w) < 0 \/ (closed /\ Cmp(Double(a), w) = 0)

\* a decimal of any length: digits / 10^scale
Long(a, s) == [digits |-> a, scale |-> s]

\* the shortest decimal, of n digits or more, that reads back as the binary64
\* x / 10^1074: one that is less than lo / 2 / 10^1074 below it or less than
\* hi / 2 / 10^1074 above it, the middles to its two neighbours (a middle
\* reads back as the binary64 when closed: its significand is even); of two
\* such decimals the nearer one
RECURSIVE Shortest(_, _, _, _, _)
Shortest(x, lo, hi, closed, n) ==
    IF n >= Len(x) THEN Long(x, SubnormalExp)
    ELSE LET cut == Len(x) - n
             c == Cut(x, cut)
             down == Within(c.low, lo, closed)
             up == c.low # <<>> /\ Within(Complement(c.low, cut), hi, closed)
         IN  IF down /\ (~up \/ ~c.up) THEN Long(c.top, SubnormalExp - cut)
             ELSE IF up THEN Long(Inc(c.top), SubnormalExp - cut)
             ELSE Shortest(x, lo, hi, closed, n + 1)

\* d without trailing zeros after the point
RECURSIVE Normal(_)
Normal(d) ==
    IF d.scale > 0 /\ d.mant % 10 = 0
    THEN Normal(Dec(d.mant \div 10, d.scale - 1))
    ELSE d

RECURSIVE NormalLong(_)
NormalLong(l) ==
    IF l.scale > 0 /\ l.digits # <<>> /\ l.digits[1] = 0
    THEN NormalLong(Long(Tail(l.digits), l.scale - 1))
    ELSE l

\* repr of the binary64 k * 2^-1074, k > 0: the neighbour below a power of
\* two 2^52 * 2^b, b > 0, is half as far as the neighbour above
Repr(k) ==
    LET b == Gap(k, 0)
        w == Times5Pow(<<1>>, SubnormalExp)
        hi == Times2Pow(w, b)
        lo == IF b > 0 /\ k = Times2Pow(<<1>>, MantBits - 1 + b)
              THEN Times2Pow(w, b - 1) ELSE hi
        m == HalfPow(k, b)
    IN  NormalLong(Shortest(Times5Pow(k, SubnormalExp), lo, hi, m[1] % 2 = 0, 1))

\* float of a value below 1E-307: 0.0 when the value is at most half of
\* 2^-1074; the repr is not longer than the Decimal
Subnormal(d) ==
    LET k == NearestMultiple(d)
    IN  IF k = <<>> THEN Dec(0, 0)
        ELSE Dec(IntOf(Repr(k).digits), Repr(k).scale)

\* float(Decimal) of a value that is not negative
FloatAbs(d) ==
    LET e == d.scale - Len(Digits(d.mant))
    IN  IF d.mant = 0 THEN Dec(0, 0)
        \* 1E-307 or more: a decimal of at most 15 digits is the repr of its float
        ELSE IF e < 307 THEN Normal(d)
        \* below 1E-324: less than half of 2^-1074
        ELSE IF e >= 324 THEN Dec(0, 0)
        ELSE Subnormal(d)

\* a binary64: its sign bit, and its magnitude as mant / 10^scale; -0.0 is
\* Float(TRUE, 0, 0)
Float(neg, m, s) == [neg |-> neg, mant |-> m, scale |-> s]

\* float(row["price"]): the binary64 nearest to the Decimal, with the sign of
\* the Decimal also when the magnitude rounds to 0
float(d) ==
    LET a == FloatAbs(Dec(IF d.mant < 0 THEN 0 - d.mant ELSE d.mant, d.scale))
    IN  Float(d.mant < 0, a.mant, a.scale)

ProductOut(row) ==
    [id |-> row.sku, name |-> row.name, description |-> row.description,
     price |-> float(row.price), currency |-> row.currency, image_url |-> row.image_url]

\* the products of the responses already returned, in request order
RECURSIVE Returned(_)
Returned(n) ==
    IF n = 0 THEN <<>>
    ELSE Returned(n - 1) \o
         (IF pc[n] = "done" /\ op[n] = "products" /\ outcome[n].status = 200
          THEN outcome[n].body.products ELSE <<>>)

\* a bug: the list is a module-level one that every request appends to
products_list_global(rs) ==
    Returned(NumInv) \o [k \in DOMAIN rs |-> ProductOut(rs[k])]

\* products = [ProductOut(...) for row in rows]
products_list(rs) == [k \in DOMAIN rs |-> ProductOut(rs[k])]

\* a bug: the response carries the internal id
MachineProductsResponse_id(m, ps) ==
    [machine_id |-> m.id, machine_name |-> m.name, products |-> ps]

\* MachineProductsResponse(machine_id=code, machine_name=name, products=products)
MachineProductsResponse(m, ps) ==
    [machine_id |-> m.code, machine_name |-> m.name, products |-> ps]

Pending == [status |-> 0, detail |-> None, body |-> Null]
Ok200(b) == [status |-> 200, detail |-> None, body |-> b]
\* raise HTTPException(status_code=404, detail="Machine not found")
NotFound404 == [status |-> 404, detail |-> "Machine not found", body |-> Null]
\* an exception that is no HTTPException: the framework answers 500
Error500 == [status |-> 500, detail |-> "Internal Server Error", body |-> Null]

NoCalls == [open |-> 0, q1 |-> 0, q2 |-> 0, close |-> 0]

\* ----- initial state -----

Init ==
    /\ \E a \in BOOLEAN : machines = MachineRows(a, TRUE)
    /\ products = ProductRows
    /\ \E f \in { g \in [1..4 -> BOOLEAN] : g[4] /\ g[2] = g[3] } : machine_products = JoinRows(f)
    /\ adminOps = 0
    /\ conns = <<>>
    /\ op = [i \in Inv |-> "none"]
    /\ code = [i \in Inv |-> None]
    /\ pc = [i \in Inv |-> "idle"]
    /\ conn = [i \in Inv |-> 0]
    /\ machine = [i \in Inv |-> Null]
    /\ rows = [i \in Inv |-> <<>>]
    /\ outcome = [i \in Inv |-> Pending]
    /\ calls = [i \in Inv |-> NoCalls]
    /\ fault = [i \in Inv |-> "none"]
    /\ seen1 = [i \in Inv |-> {}]
    /\ seen2 = [i \in Inv |-> [machines |-> {}, machine_products |-> {}]]

\* requests are numbered in the order they arrive
Arrives(i) == pc[i] = "idle" /\ (IF i = 1 THEN TRUE ELSE pc[i - 1] # "idle")

\* ----- GET /health -----

\* a bug: the health check probes the database
health_check_db(i) ==
    /\ Arrives(i)
    /\ op' = [op EXCEPT ![i] = "health"]
    /\ conns' = get_conn(conns, i).conns
    /\ conn' = [conn EXCEPT ![i] = get_conn(conns, i).id]
    /\ calls' = [calls EXCEPT ![i].open = @ + 1]
    /\ pc' = [pc EXCEPT ![i] = "done"]
    /\ outcome' = [outcome EXCEPT ![i] = Ok200([status |-> "ok"])]
    /\ UNCHANGED <<store, adminOps, code, machine, rows, fault, seen1, seen2>>

health_check(i) ==
    /\ Arrives(i)
    /\ op' = [op EXCEPT ![i] = "health"]
    /\ pc' = [pc EXCEPT ![i] = "done"]
    /\ outcome' = [outcome EXCEPT ![i] = Ok200([status |-> "ok"])]
    /\ UNCHANGED <<store, adminOps, conns, code, locals, calls, fault, seen1, seen2>>

\* ----- GET /machines/{machine_code}/products -----

\* conn = get_conn() returns a connection
GetConn(i, c) ==
    /\ Arrives(i)
    /\ op' = [op EXCEPT ![i] = "products"]
    /\ code' = [code EXCEPT ![i] = c]
    /\ conns' = get_conn(conns, i).conns
    /\ conn' = [conn EXCEPT ![i] = get_conn(conns, i).id]
    /\ calls' = [calls EXCEPT ![i].open = @ + 1]
    /\ pc' = [pc EXCEPT ![i] = "query1"]
    /\ UNCHANGED <<store, adminOps, machine, rows, outcome, fault, seen1, seen2>>

\* conn = get_conn() raises: the call is outside the try block, the
\* exception leaves the handler at once
GetConnFail(i, c) ==
    /\ Arrives(i)
    /\ op' = [op EXCEPT ![i] = "products"]
    /\ code' = [code EXCEPT ![i] = c]
    /\ fault' = [fault EXCEPT ![i] = "connect"]
    /\ outcome' = [outcome EXCEPT ![i] = Error500]
    /\ pc' = [pc EXCEPT ![i] = "done"]
    /\ UNCHANGED <<store, adminOps, conns, locals, calls, seen1, seen2>>

\* query 1 returns a row
Query1Found(i) ==
    /\ pc[i] = "query1"
    /\ \E m \in select_machine(machines, code[i]) :
          /\ m # Null
          /\ machine' = [machine EXCEPT ![i] = m]
    /\ conns' = Use(conns, conn[i], i)
    /\ calls' = [calls EXCEPT ![i].q1 = @ + 1]
    /\ seen1' = [seen1 EXCEPT ![i] = machines]
    /\ pc' = [pc EXCEPT ![i] = "query2"]
    /\ UNCHANGED <<store, adminOps, op, code, conn, rows, outcome, fault, seen2>>

\* a bug: the handler returns without closing the connection
Query1NotFound_leak(i) ==
    /\ pc[i] = "query1"
    /\ Null \in select_machine(machines, code[i])
    /\ conns' = Use(conns, conn[i], i)
    /\ calls' = [calls EXCEPT ![i].q1 = @ + 1]
    /\ seen1' = [seen1 EXCEPT ![i] = machines]
    /\ outcome' = [outcome EXCEPT ![i] = NotFound404]
    /\ pc' = [pc EXCEPT ![i] = "done"]
    /\ UNCHANGED <<store, adminOps, op, code, locals, fault, seen2>>

\* a bug: the check of the machine comes after both queries
Query1NotFound_late(i) ==
    /\ pc[i] = "query1"
    /\ Null \in select_machine(machines, code[i])
    /\ conns' = Use(conns, conn[i], i)
    /\ calls' = [calls EXCEPT ![i].q1 = @ + 1, ![i].q2 = @ + 1]
    /\ seen1' = [seen1 EXCEPT ![i] = machines]
    /\ outcome' = [outcome EXCEPT ![i] = NotFound404]
    /\ pc' = [pc EXCEPT ![i] = "finally"]
    /\ UNCHANGED <<store, adminOps, op, code, locals, fault, seen2>>

\* query 1 returns no row: raise HTTPException(404)
Query1NotFound(i) ==
    /\ pc[i] = "query1"
    /\ Null \in select_machine(machines, code[i])
    /\ conns' = Use(conns, conn[i], i)
    /\ calls' = [calls EXCEPT ![i].q1 = @ + 1]
    /\ seen1' = [seen1 EXCEPT ![i] = machines]
    /\ outcome' = [outcome EXCEPT ![i] = NotFound404]
    /\ pc' = [pc EXCEPT ![i] = "finally"]
    /\ UNCHANGED <<store, adminOps, op, code, locals, fault, seen2>>

\* query 1 raises a database error
Query1Fail(i) ==
    /\ pc[i] = "query1"
    /\ conns' = Use(conns, conn[i], i)
    /\ calls' = [calls EXCEPT ![i].q1 = @ + 1]
    /\ fault' = [fault EXCEPT ![i] = "query1"]
    /\ outcome' = [outcome EXCEPT ![i] = Error500]
    /\ pc' = [pc EXCEPT ![i] = "finally"]
    /\ UNCHANGED <<store, adminOps, op, code, locals, seen1, seen2>>

\* query 2 and fetchall(); the rows become ProductOut objects and the
\* handler returns the response
Query2(i) ==
    /\ pc[i] = "query2"
    /\ \E rs \in fetchall_products(machine_products, products, machine[i].id) :
          /\ rows' = [rows EXCEPT ![i] = rs]
          /\ outcome' = [outcome EXCEPT ![i] =
                            Ok200(MachineProductsResponse(machine[i], products_list(rs)))]
    /\ conns' = Use(conns, conn[i], i)
    /\ calls' = [calls EXCEPT ![i].q2 = @ + 1]
    /\ seen2' = [seen2 EXCEPT ![i] =
                    [machines |-> machines, machine_products |-> machine_products]]
    /\ pc' = [pc EXCEPT ![i] = "finally"]
    /\ UNCHANGED <<store, adminOps, op, code, conn, machine, fault, seen1>>

\* a bug: the error of query 2 is swallowed and the machine is returned without products
Query2Fail_swallow(i) ==
    /\ pc[i] = "query2"
    /\ conns' = Use(conns, conn[i], i)
    /\ calls' = [calls EXCEPT ![i].q2 = @ + 1]
    /\ fault' = [fault EXCEPT ![i] = "query2"]
    /\ outcome' = [outcome EXCEPT ![i] = Ok200(MachineProductsResponse(machine[i], <<>>))]
    /\ pc' = [pc EXCEPT ![i] = "finally"]
    /\ UNCHANGED <<store, adminOps, op, code, locals, seen1, seen2>>

\* query 2 raises a database error
Query2Fail(i) ==
    /\ pc[i] = "query2"
    /\ conns' = Use(conns, conn[i], i)
    /\ calls' = [calls EXCEPT ![i].q2 = @ + 1]
    /\ fault' = [fault EXCEPT ![i] = "query2"]
    /\ outcome' = [outcome EXCEPT ![i] = Error500]
    /\ pc' = [pc EXCEPT ![i] = "finally"]
    /\ UNCHANGED <<store, adminOps, op, code, locals, seen1, seen2>>

\* finally: conn.close(); the return value or the exception reaches the caller
Close(i) ==
    /\ pc[i] = "finally"
    /\ conns' = [conns EXCEPT ![conn[i]].open = FALSE,
                              ![conn[i]].closes = @ + 1,
                              ![conn[i]].used_by = @ \cup {i}]
    /\ calls' = [calls EXCEPT ![i].close = @ + 1]
    /\ pc' = [pc EXCEPT ![i] = "done"]
    /\ UNCHANGED <<store, adminOps, op, code, locals, outcome, fault, seen1, seen2>>

\* ----- external administration of the store -----
\* (each update is committed between two steps of the requests; the updates
\* of the model are those of the machines that clients look up)
Looked == { m \in machines : m.code \in Codes }

AdminSetMachineActive(m) ==
    /\ adminOps < MaxAdmin
    /\ m \in machines
    /\ machines' = (machines \ {m}) \cup {[m EXCEPT !.is_active = ~m.is_active]}
    /\ adminOps' = adminOps + 1
    /\ UNCHANGED <<products, machine_products, conns, op, code, pc, locals,
                   outcome, calls, fault, seen1, seen2>>

AdminSetJoinActive(r) ==
    /\ adminOps < MaxAdmin
    /\ r \in machine_products
    /\ machine_products' = (machine_products \ {r}) \cup {[r EXCEPT !.is_active = ~r.is_active]}
    /\ adminOps' = adminOps + 1
    /\ UNCHANGED <<machines, products, conns, op, code, pc, locals,
                   outcome, calls, fault, seen1, seen2>>

\* UPDATE machine_products SET is_active = FALSE WHERE machine_id = mid
AdminClearJoins(mid) ==
    /\ adminOps < MaxAdmin
    /\ \E r \in machine_products : r.machine_id = mid /\ r.is_active
    /\ machine_products' =
          { IF r.machine_id = mid THEN [r EXCEPT !.is_active = FALSE] ELSE r :
              r \in machine_products }
    /\ adminOps' = adminOps + 1
    /\ UNCHANGED <<machines, products, conns, op, code, pc, locals,
                   outcome, calls, fault, seen1, seen2>>

Next ==
    \/ \E i \in Inv : health_check(i)
    \/ \E i \in Inv, c \in Codes : GetConn(i, c)
    \/ \E i \in Inv, c \in Codes : GetConnFail(i, c)
    \/ \E i \in Inv : Query1Found(i)
    \/ \E i \in Inv : Query1NotFound(i)
    \/ \E i \in Inv : Query1Fail(i)
    \/ \E i \in Inv : Query2(i)
    \/ \E i \in Inv : Query2Fail(i)
    \/ \E i \in Inv : Close(i)
    \/ \E m \in Looked : AdminSetMachineActive(m)
    \/ \E m \in Looked : \E r \in { x \in machine_products : x.machine_id = m.id } :
          AdminSetJoinActive(r)
    \/ \E m \in Looked : AdminClearJoins(m.id)

Spec == Init /\ [][Next]_vars

\* ----- properties -----

Done(i) == pc[i] = "done" /\ op[i] = "products"
Success(i) == Done(i) /\ outcome[i].status = 200
ActiveMachines(ms, c) == { m \in ms : m.code = c /\ m.is_active }
ActiveJoins(mps, mid) == { r \in mps : r.machine_id = mid /\ r.is_active }
Range(s) == { s[k] : k \in DOMAIN s }
\* product entry e of a response shows join row r
Shows(e, r) ==
    \E p \in products :
        /\ p.id = r.product_id
        /\ e.id = p.sku /\ e.name = p.name /\ e.currency = r.currency

\* C1 as claimed: every finished invocation of get_machine_products, a failed
\* get_conn included, has called close exactly once.
C1_CloseOnceAlways ==
    \A i \in Inv : Done(i) => calls[i].close = 1

\* C1 amended: a finished invocation that obtained a connection (success,
\* NotFound, failure of query 1 or 2) has closed that connection exactly once;
\* an invocation whose get_conn failed obtained none and has called close
\* zero times.
C1_CloseOncePerConnection ==
    \A i \in Inv :
        Done(i) =>
            /\ calls[i].open = (IF fault[i] = "connect" THEN 0 ELSE 1)
            /\ calls[i].close = calls[i].open
            /\ conn[i] # 0 => conns[conn[i]].closes = 1 /\ ~conns[conn[i]].open

C1_Witness ==
    \E i, j \in Inv :
        /\ Done(i) /\ fault[i] = "connect" /\ calls[i].close = 0
        /\ Done(j) /\ outcome[j].status = 404 /\ conns[conn[j]].closes = 1

\* C2: an invocation whose query 1 ran against a machines relation with no
\* active row of the requested code (code absent, or its row inactive) ends
\* with 404 "Machine not found" and no machine or product data.
C2_NoActiveMachineIs404 ==
    \A i \in Inv :
        ( /\ Done(i) /\ calls[i].q1 = 1 /\ fault[i] = "none"
          /\ ActiveMachines(seen1[i], code[i]) = {} )
        => outcome[i] = [status |-> 404, detail |-> "Machine not found", body |-> Null]

C2_Witness ==
    \E i, j \in Inv :
        /\ Done(i) /\ outcome[i].status = 404
        /\ \E m \in seen1[i] : m.code = code[i] /\ ~m.is_active
        /\ Done(j) /\ outcome[j].status = 404
        /\ seen1[j] # {} /\ \A m \in seen1[j] : m.code # code[j]

\* C3: query 2 is issued at most once and only after query 1 completed and
\* returned a row; when query 1 returned no row or failed, query 2 is not issued.
C3_Query2OnlyAfterQuery1Row ==
    \A i \in Inv :
        /\ calls[i].q2 <= 1
        /\ calls[i].q2 = 1 =>
              /\ calls[i].q1 = 1
              /\ fault[i] # "query1"
              /\ machine[i] # Null
              /\ ActiveMachines(seen1[i], code[i]) # {}
        /\ (outcome[i].status = 404 \/ fault[i] \in {"connect", "query1"})
              => calls[i].q2 = 0

C3_Witness ==
    \E i, j \in Inv :
        /\ Done(i) /\ outcome[i].status = 404 /\ calls[i].q1 = 1 /\ calls[i].q2 = 0
        /\ Done(j) /\ fault[j] = "query1" /\ calls[j].q2 = 0

\* C4: a success response lists exactly the N join rows that were active for
\* the resolved machine's internal id when query 2 read them, one entry per
\* row, ascending by product name; N = 0 gives a success with an empty list.
C4_ProductsAreActiveJoinsSorted ==
    \A i \in Inv :
        Success(i) =>
            \E m \in ActiveMachines(seen1[i], code[i]) :
                LET ps == outcome[i].body.products
                    act == ActiveJoins(seen2[i].machine_products, m.id)
                IN  /\ Len(ps) = Cardinality(act)
                    /\ \A k \in 1..(Len(ps) - 1) :
                          Collate(ps[k].name) <= Collate(ps[k + 1].name)
                    /\ \E f \in [1..Len(ps) -> act] :
                          /\ Injective(f)
                          /\ \A k \in 1..Len(ps) : Shows(ps[k], f[k])

C4_Witness ==
    \E i, j \in Inv :
        /\ Success(i) /\ Len(outcome[i].body.products) = 3
        /\ \E r \in seen2[i].machine_products : r.machine_id # machine[i].id /\ r.is_active
        /\ Success(j) /\ Len(outcome[j].body.products) = 0

\* C5: in a success response machine_id is the scan code of the resolved
\* machine row, which is the requested machine_code and not the row's
\* internal id; machine_name is the row's name.
C5_MachineIdIsCode ==
    \A i \in Inv :
        Success(i) =>
            /\ outcome[i].body.machine_id = code[i]
            /\ \E m \in ActiveMachines(seen1[i], code[i]) :
                  /\ outcome[i].body.machine_id = m.code
                  /\ outcome[i].body.machine_id # m.id
                  /\ outcome[i].body.machine_name = m.name

C5_Witness ==
    \E i \in Inv :
        /\ Success(i) /\ code[i] = "M12" /\ machine[i].id = "7"
        /\ outcome[i].body.machine_name = "Lobby Vendor"

\* C6: a failure at connection time, in query 1 or in query 2 ends the
\* invocation with the internal-error outcome and no body; nothing is called
\* twice; a success response exists only when both queries completed.
C6_AllOrNothing ==
    \A i \in Inv :
        /\ calls[i].open <= 1 /\ calls[i].q1 <= 1 /\ calls[i].q2 <= 1
        /\ Done(i) =>
              /\ fault[i] # "none" => outcome[i] = Error500
              /\ outcome[i].status # 200 => outcome[i].body = Null
              /\ outcome[i].status = 200 =>
                    /\ fault[i] = "none"
                    /\ calls[i].q1 = 1 /\ calls[i].q2 = 1

C6_Witness ==
    \E i, j \in Inv :
        /\ Done(i) /\ fault[i] = "query2" /\ machine[i] # Null /\ outcome[i].status = 500
        /\ Done(j) /\ fault[j] = "query1"

\* C7: no step of the service changes the machines, products or
\* machine_products relation (only external administration does), and a
\* health_check opens no connection and issues no query.
C7_ReadOnly ==
    [][ /\ adminOps' = adminOps => store' = store
        /\ \A i \in Inv :
              (op[i] = "none" /\ op'[i] = "health") =>
                  /\ conns' = conns /\ calls' = calls /\ conn' = conn
                  /\ outcome'[i] = Ok200([status |-> "ok"]) ]_vars

C7_Witness ==
    \E i, j \in Inv :
        /\ op[i] = "health" /\ pc[i] = "done" /\ calls[i] = NoCalls
        /\ Success(j) /\ adminOps = 0 /\ Len(conns) = 1

\* C8: a connection is used (queried, closed) only by the invocation that
\* opened it, and when every invocation has finished every connection that
\* was opened is closed: as many were closed as were opened.
RECURSIVE Total(_, _)
Total(n, field) == IF n = 0 THEN 0 ELSE Total(n - 1, field) + calls[n][field]

C8_PrivateConnections ==
    /\ \A c \in DOMAIN conns : conns[c].used_by = {conns[c].opened_by}
    /\ \A i \in Inv : conn[i] # 0 => conns[conn[i]].opened_by = i
    /\ \A i, j \in Inv : (i # j /\ conn[i] # 0) => conn[i] # conn[j]
    /\ (\A i \in Inv : pc[i] = "done") =>
          /\ \A c \in DOMAIN conns : ~conns[c].open /\ conns[c].closes = 1
          /\ Total(NumInv, "open") = Total(NumInv, "close")
          /\ Total(NumInv, "open") = Len(conns)

C8_Witness ==
    /\ \A i \in Inv : pc[i] = "done"
    /\ Len(conns) >= 2
    /\ \A c \in DOMAIN conns : conns[c].closes = 1

\* C9 as claimed: every product of a success response comes from a join row
\* that was active, for a machine that was active, when query 2 read it.
C9_MachineActiveAtQuery2 ==
    \A i \in Inv :
        Success(i) =>
            \E m \in ActiveMachines(seen2[i].machines, code[i]) :
                \A e \in Range(outcome[i].body.products) :
                    \E r \in ActiveJoins(seen2[i].machine_products, m.id) : Shows(e, r)

\* C9 amended: every product of a success response comes from a join row
\* that was active when query 2 read it, for a machine that was active when
\* query 1 read it; the machine is not read again by query 2.
C9_MachineActiveAtQuery1 ==
    \A i \in Inv :
        Success(i) =>
            \E m \in ActiveMachines(seen1[i], code[i]) :
                \A e \in Range(outcome[i].body.products) :
                    \E r \in ActiveJoins(seen2[i].machine_products, m.id) : Shows(e, r)

C9_Witness ==
    \E i \in Inv :
        /\ Success(i) /\ outcome[i].body.products # <<>>
        /\ ActiveMachines(seen2[i].machines, code[i]) = {}

\* C10 as claimed: with the store content fixed (no update committed), two
\* invocations with the same machine_code have the same outcome, whatever
\* ran before or beside them.
C10_SameOutcome ==
    adminOps = 0 =>
        \A i, j \in Inv :
            (Done(i) /\ Done(j) /\ code[i] = code[j]) => outcome[i] = outcome[j]

\* the outcomes that the arguments of one invocation allow: its machine_code
\* c, the failure f of the store at one of its calls, the machines relation
\* s1 its query 1 read and the store s2 its query 2 read; they differ in
\* nothing but the order of products with equal names
Outcomes(c, f, s1, s2) ==
    IF f # "none" THEN {Error500}
    ELSE IF ActiveMachines(s1, c) = {} THEN {NotFound404}
    ELSE UNION { { Ok200([machine_id |-> c, machine_name |-> m.name,
                          products |-> [k \in DOMAIN rs |-> ProductOut(rs[k])]]) :
                     rs \in fetchall_products(s2.machine_products, products, m.id) } :
                 m \in ActiveMachines(s1, c) }

\* C10 amended: the outcome of every invocation of get_machine_products is
\* the one that its machine_code and the store as this invocation met it
\* (the rows its queries read, or the failure of one of its calls) determine,
\* except for the order of products with equal names, which ORDER BY p.name
\* leaves to the store; this whatever the other invocations are: earlier or
\* concurrent ones, of health_check or of get_machine_products with this or
\* another code, with whatever outcome.
C10_OutcomeOfCodeAndStore ==
    \A i \in Inv :
        Done(i) => outcome[i] \in Outcomes(code[i], fault[i], seen1[i], seen2[i])

\* two successes for the same code on the same store content, without any
\* failure, that list the two products of equal name in different order
C10_Witness ==
    \E i, j \in Inv :
        /\ i < j /\ Success(i) /\ Success(j) /\ code[i] = code[j]
        /\ adminOps = 0 /\ seen1[i] = seen1[j] /\ seen2[i] = seen2[j]
        /\ Len(outcome[i].body.products) = 3
        /\ outcome[i] # outcome[j]

====
